---- MODULE Spec2Model ----
(***************************************************************************)
(* ChatGenius real-time hub.                                               *)
(*                                                                         *)
(*   Spec       the WebSocket hub of server/routes.ts: the clients         *)
(*              registry, the presence store, the in-memory message log,   *)
(*              broadcastMessage / cleanupClient and the socket handlers.  *)
(*   SpecClient the message list of the useWebSocket hook                  *)
(*              (client/src/lib/types.ts): sendMessage and the             *)
(*              new_message / message_confirmed handlers.                  *)
(*   SpecConn   the connection effect of the useWebSocket hook: connect,   *)
(*              onopen, onclose, the reconnect timer and the effect's      *)
(*              cleanup / re-run on [retryCount, reconnectTimer].          *)
(*   SpecIntake the hub again, with two sockets and every kind of frame a  *)
(*              client can put on the wire.                                *)
(*   SpecInput  the typing timeout of the MessageInput component.          *)
(*   SpecTyping the typing sets of the useWebSocket hook and the hub's     *)
(*              forwarding of typing_indicator frames.                     *)
(*                                                                         *)
(* Every handler runs to completion on a single-threaded event loop, so    *)
(* each handler is one action.  A handler is an operator from the state    *)
(* and its inputs to the new state and the log (`trace`) of what it sent;  *)
(* the claims about one handler are stated of every run the handler can    *)
(* make from a reachable state.                                            *)
(***************************************************************************)
EXTENDS Integers, Sequences, FiniteSets, TLC

VARIABLES
    \* ---- hub (server/routes.ts) ----
    clients,              \* Map<WebSocket,string>, in insertion order
    userPresenceInMemory, \* Map<string,{status,lastSeen}>
    messagesInMemory,     \* WebSocketMessage[]
    pendingMessages,      \* Map<string,WebSocketMessage>, its key set
    readyState,           \* ws.readyState of every socket
    nextId,               \* number of message ids issued so far
    \* ---- client message list (useWebSocket) ----
    messages,             \* useState<Message[]>
    clock,                \* the browser clock read by Date.now()
    \* ---- client connection effect (useWebSocket) ----
    retryCount,           \* useState(0)
    reconnectTimer,       \* useState<Timeout>(): 0 is undefined
    effects,              \* the closures of the connection effect, in order
    sockets,              \* every WebSocket the hook created, in order
    timers,               \* every timer the hook armed, in order
    mounted,              \* the component using the hook is mounted
    \* ---- client typing sets (useWebSocket) ----
    typingIndicators,     \* useState<Map<string, Set<string>>>
    lastTyping,           \* per key and user, the isTyping of the last event
    \* ---- message input (MessageInput) ----
    draft,                \* useState("") message
    typingTimeout,        \* useState<Timeout>(): 0 is undefined
    typingTimers,         \* every typing timer armed, in order: is it armed
    isSending,            \* useState(false)
    sent,                 \* the typing events the last handler put on the wire
    inputMounted          \* the input is mounted

hubVars  == <<clients, userPresenceInMemory, messagesInMemory, pendingMessages,
              readyState, nextId>>
cliVars  == <<messages, clock>>
connVars == <<retryCount, reconnectTimer, effects, sockets, timers, mounted>>
typVars  == <<typingIndicators, lastTyping>>
inpVars  == <<draft, typingTimeout, typingTimers, isSending, sent, inputMounted>>
uiVars   == <<typVars, inpVars>>
vars     == <<hubVars, cliVars, connVars, uiVars>>

----------------------------------------------------------------------------
(* Bounds of the model *)

\* number of message ids the hub may issue
MaxMsgs == 1
\* longest message list of the client
MaxList == 3
\* largest value of the browser clock
MaxClock == 2

\* the sockets the hub accepts
Conns == {"c1", "c2", "c3"}
\* the user ids that occur in frames
Users == {"jane", "bob"}
\* the values new Date() takes on the server
Times == {1}

----------------------------------------------------------------------------
(* JavaScript values *)

\* a field that is absent from an object (undefined)
Undef == "undefined"
\* !v for a string-valued field
Falsy(v) == v \in {Undef, ""}

\* WebSocketMessage: every optional field, absent ones Undef (strings), 0
\* (timestamp, lastSeen) or <<>> (id, readBy)
WebSocketMessage(type, userId) ==
    [type |-> type, userId |-> userId, content |-> Undef, channelId |-> Undef,
     dmId |-> Undef, parentId |-> Undef, status |-> Undef, isTyping |-> Undef,
     id |-> <<>>, timestamp |-> 0, readBy |-> <<>>, lastSeen |-> 0]

\* `msg_${Date.now()}_${Math.random()...}`: a string starting with msg_ that
\* no other message carries
MessageId(n) == <<"msg", n>>

----------------------------------------------------------------------------
(* The hub: registry, broadcastMessage, cleanupClient (server/routes.ts) *)

\* clients is a Map: a sequence of [ws, userId] entries in insertion order
Keys(cl) == [i \in 1..Len(cl) |-> cl[i].ws]
KeySet(cl) == {cl[i].ws : i \in 1..Len(cl)}
\* clients.has(ws)
MapHas(cl, ws) == ws \in KeySet(cl)
\* clients.get(ws)
MapGet(cl, ws) ==
    IF MapHas(cl, ws)
    THEN cl[CHOOSE i \in 1..Len(cl) : cl[i].ws = ws].userId
    ELSE Undef
\* clients.set(ws, userId): a known key keeps its place, a new one goes last
MapSet(cl, ws, userId) ==
    IF MapHas(cl, ws)
    THEN [i \in 1..Len(cl) |->
             IF cl[i].ws = ws THEN [ws |-> ws, userId |-> userId] ELSE cl[i]]
    ELSE Append(cl, [ws |-> ws, userId |-> userId])
\* clients.delete(ws)
MapDelete(cl, ws) == SelectSeq(cl, LAMBDA e : e.ws # ws)

\* userPresenceInMemory is a Map: [userId, status, lastSeen] entries in
\* insertion order; userPresenceInMemory.set(userId, {status, lastSeen})
PresenceSet(p, userId, status, lastSeen) ==
    LET e == [userId |-> userId, status |-> status, lastSeen |-> lastSeen] IN
    IF \E i \in 1..Len(p) : p[i].userId = userId
    THEN [i \in 1..Len(p) |-> IF p[i].userId = userId THEN e ELSE p[i]]
    ELSE Append(p, e)

\* One entry of a handler's trace.  A "call" entry is an invocation of
\* broadcastMessage (targets: the registry's keys at that moment); a "send"
\* entry is one ws.send (ok: it returned, ~ok: it threw), `call` being the
\* position in the trace of the broadcast it belongs to, 0 for a direct send.
CallEntry(ev, excludeWs, cl, at) ==
    [k |-> "call", to |-> Undef, ev |-> ev, ok |-> TRUE, call |-> at,
     targets |-> KeySet(cl), excl |-> excludeWs]
SendEntry(ws, ev, ok, call) ==
    [k |-> "send", to |-> ws, ev |-> ev, ok |-> ok, call |-> call,
     targets |-> {}, excl |-> Undef]

\* ws.send(JSON.stringify(ev)): throws exactly for the sockets in env.fail
SendThrows(env, ws) == ws \in env.fail

\* the presence_update that cleanupClient broadcasts (lines 623-628)
OfflineEvent(userId, t) ==
    [WebSocketMessage("presence_update", userId) EXCEPT
        !.status = "offline", !.timestamp = t]

RECURSIVE forEachClient(_, _, _, _, _, _, _)
RECURSIVE cleanupClient(_, _, _)

\* broadcastMessage(message, excludeWs), lines 597-612.  S is the hub's
\* state [clients, presence, trace], env the handler's surroundings
\* [fail, rs, now].
broadcastMessage(S, env, message, excludeWs) ==
    LET at == Len(S.trace) + 1
        S1 == [S EXCEPT !.trace =
                   Append(@, CallEntry(message, excludeWs, S.clients, at))]
    IN  forEachClient(S1, env, message, excludeWs, Keys(S.clients), 1, at)

\* a fan-out that forgets `ws !== excludeWs`
forEachClient_NoExclusion(S, env, message, excludeWs, order, i, at) ==
    IF i > Len(order) THEN S
    ELSE LET ws == order[i] IN
         IF ~MapHas(S.clients, ws)
         THEN forEachClient(S, env, message, excludeWs, order, i + 1, at)
         ELSE IF env.rs[ws] = "OPEN"
         THEN IF SendThrows(env, ws)
              THEN forEachClient(
                       cleanupClient(
                           [S EXCEPT !.trace =
                               Append(@, SendEntry(ws, message, FALSE, at))],
                           env, ws),
                       env, message, excludeWs, order, i + 1, at)
              ELSE forEachClient(
                       [S EXCEPT !.trace =
                           Append(@, SendEntry(ws, message, TRUE, at))],
                       env, message, excludeWs, order, i + 1, at)
         ELSE forEachClient(S, env, message, excludeWs, order, i + 1, at)

\* a fan-out without the try/catch around ws.send: the first throw ends it
forEachClient_AbortOnThrow(S, env, message, excludeWs, order, i, at) ==
    IF i > Len(order) THEN S
    ELSE LET ws == order[i] IN
         IF ~MapHas(S.clients, ws)
         THEN forEachClient(S, env, message, excludeWs, order, i + 1, at)
         ELSE IF ws # excludeWs /\ env.rs[ws] = "OPEN"
         THEN IF SendThrows(env, ws)
              THEN [S EXCEPT !.trace =
                       Append(@, SendEntry(ws, message, FALSE, at))]
              ELSE forEachClient(
                       [S EXCEPT !.trace =
                           Append(@, SendEntry(ws, message, TRUE, at))],
                       env, message, excludeWs, order, i + 1, at)
         ELSE forEachClient(S, env, message, excludeWs, order, i + 1, at)

\* a fan-out that also visits the entries deleted while it runs
forEachClient_VisitsDeleted(S, env, message, excludeWs, order, i, at) ==
    IF i > Len(order) THEN S
    ELSE LET ws == order[i] IN
         IF ws # excludeWs /\ env.rs[ws] = "OPEN"
         THEN IF SendThrows(env, ws)
              THEN forEachClient(
                       cleanupClient(
                           [S EXCEPT !.trace =
                               Append(@, SendEntry(ws, message, FALSE, at))],
                           env, ws),
                       env, message, excludeWs, order, i + 1, at)
              ELSE forEachClient(
                       [S EXCEPT !.trace =
                           Append(@, SendEntry(ws, message, TRUE, at))],
                       env, message, excludeWs, order, i + 1, at)
         ELSE forEachClient(S, env, message, excludeWs, order, i + 1, at)

\* the body of clients.forEach (lines 601-611): Map iteration visits the
\* entries in insertion order and skips an entry deleted before its turn
forEachClient(S, env, message, excludeWs, order, i, at) ==
    IF i > Len(order) THEN S
    ELSE LET ws == order[i] IN
         IF ~MapHas(S.clients, ws)
         THEN forEachClient(S, env, message, excludeWs, order, i + 1, at)
         ELSE IF ws # excludeWs /\ env.rs[ws] = "OPEN"
         THEN IF SendThrows(env, ws)
              THEN forEachClient(
                       cleanupClient(
                           [S EXCEPT !.trace =
                               Append(@, SendEntry(ws, message, FALSE, at))],
                           env, ws),
                       env, message, excludeWs, order, i + 1, at)
              ELSE forEachClient(
                       [S EXCEPT !.trace =
                           Append(@, SendEntry(ws, message, TRUE, at))],
                       env, message, excludeWs, order, i + 1, at)
         ELSE forEachClient(S, env, message, excludeWs, order, i + 1, at)

\* a cleanup without the `if (userId)` guard
cleanupClient_Unguarded(S, env, ws) ==
    LET userId == MapGet(S.clients, ws) IN
    broadcastMessage(
        [S EXCEPT !.clients = MapDelete(@, ws),
                  !.presence = PresenceSet(@, userId, "offline", env.now)],
        env, OfflineEvent(userId, env.now), Undef)

\* a cleanup that keeps a user online while another connection of that
\* user is registered
cleanupClient_UnlessStillConnected(S, env, ws) ==
    LET userId == MapGet(S.clients, ws)
        rest == MapDelete(S.clients, ws)
    IN  IF Falsy(userId) THEN S
        ELSE IF \E k \in 1..Len(rest) : rest[k].userId = userId
        THEN [S EXCEPT !.clients = rest]
        ELSE broadcastMessage(
                 [S EXCEPT !.clients = rest,
                           !.presence = PresenceSet(@, userId, "offline", env.now)],
                 env, OfflineEvent(userId, env.now), Undef)

\* cleanupClient(ws), lines 614-630
cleanupClient(S, env, ws) ==
    LET userId == MapGet(S.clients, ws) IN
    IF Falsy(userId) THEN S
    ELSE broadcastMessage(
             [S EXCEPT !.clients = MapDelete(@, ws),
                       !.presence = PresenceSet(@, userId, "offline", env.now)],
             env, OfflineEvent(userId, env.now), Undef)

\* the message_confirmed reply of lines 704-712
Confirmation(message, messageId, timestamp) ==
    [WebSocketMessage("message_confirmed", Undef) EXCEPT
        !.id = messageId, !.content = message.content,
        !.channelId = message.channelId, !.dmId = message.dmId,
        !.parentId = message.parentId, !.timestamp = timestamp]

\* an intake that broadcasts the new message to the sender as well
caseNewMessage_EchoToSender(S, env, ws, message) ==
    IF Falsy(message.content) THEN S
    ELSE
    LET timestamp  == env.now
        messageId  == MessageId(S.nextId + 1)
        newMessage == [message EXCEPT !.id = messageId,
                                      !.timestamp = timestamp,
                                      !.readBy = <<message.userId>>,
                                      !.parentId = message.parentId]
        S1 == [S EXCEPT !.nextId = @ + 1,
                        !.messages = Append(@, newMessage),
                        !.pending = @ \cup {messageId}]
        reply == Confirmation(message, messageId, timestamp)
    IN  IF SendThrows(env, ws)
        THEN [S1 EXCEPT !.trace = Append(@, SendEntry(ws, reply, FALSE, 0)),
                        !.messages = SubSeq(@, 1, Len(@) - 1),
                        !.pending = @ \ {messageId}]
        ELSE LET S2 == [S1 EXCEPT !.trace =
                           Append(@, SendEntry(ws, reply, TRUE, 0))]
                 S3 == broadcastMessage(S2, env, newMessage, Undef)
             IN  [S3 EXCEPT !.pending = @ \ {messageId}]

\* an intake whose catch forgets messagesInMemory.pop()
caseNewMessage_NoRollback(S, env, ws, message) ==
    IF Falsy(message.content) THEN S
    ELSE
    LET timestamp  == env.now
        messageId  == MessageId(S.nextId + 1)
        newMessage == [message EXCEPT !.id = messageId,
                                      !.timestamp = timestamp,
                                      !.readBy = <<message.userId>>,
                                      !.parentId = message.parentId]
        S1 == [S EXCEPT !.nextId = @ + 1,
                        !.messages = Append(@, newMessage),
                        !.pending = @ \cup {messageId}]
        reply == Confirmation(message, messageId, timestamp)
    IN  IF SendThrows(env, ws)
        THEN [S1 EXCEPT !.trace = Append(@, SendEntry(ws, reply, FALSE, 0)),
                        !.pending = @ \ {messageId}]
        ELSE LET S2 == [S1 EXCEPT !.trace =
                           Append(@, SendEntry(ws, reply, TRUE, 0))]
                 S3 == broadcastMessage(S2, env, newMessage, ws)
             IN  [S3 EXCEPT !.pending = @ \ {messageId}]

\* case 'new_message', lines 685-723
caseNewMessage(S, env, ws, message) ==
    IF Falsy(message.content) THEN S
    ELSE
    LET timestamp  == env.now
        messageId  == MessageId(S.nextId + 1)
        newMessage == [message EXCEPT !.id = messageId,
                                      !.timestamp = timestamp,
                                      !.readBy = <<message.userId>>,
                                      !.parentId = message.parentId]
        S1 == [S EXCEPT !.nextId = @ + 1,
                        !.messages = Append(@, newMessage),
                        !.pending = @ \cup {messageId}]
        reply == Confirmation(message, messageId, timestamp)
    IN  IF SendThrows(env, ws)
        THEN \* catch, lines 717-721
             [S1 EXCEPT !.trace = Append(@, SendEntry(ws, reply, FALSE, 0)),
                        !.messages = SubSeq(@, 1, Len(@) - 1),
                        !.pending = @ \ {messageId}]
        ELSE LET S2 == [S1 EXCEPT !.trace =
                           Append(@, SendEntry(ws, reply, TRUE, 0))]
                 S3 == broadcastMessage(S2, env, newMessage, ws)
             IN  [S3 EXCEPT !.pending = @ \ {messageId}]

\* a presence intake without the `if (!message.status)` check
casePresenceUpdate_Unvalidated(S, env, ws, message) ==
    broadcastMessage(
        [S EXCEPT !.presence =
            PresenceSet(@, message.userId, message.status, env.now)],
        env,
        [WebSocketMessage("presence_update", message.userId) EXCEPT
            !.status = message.status, !.lastSeen = env.now,
            !.timestamp = env.now],
        Undef)

\* case 'presence_update', lines 725-744
casePresenceUpdate(S, env, ws, message) ==
    IF Falsy(message.status) THEN S
    ELSE broadcastMessage(
             [S EXCEPT !.presence =
                 PresenceSet(@, message.userId, message.status, env.now)],
             env,
             [WebSocketMessage("presence_update", message.userId) EXCEPT
                 !.status = message.status, !.lastSeen = env.now,
                 !.timestamp = env.now],
             Undef)

\* case 'typing_indicator', lines 746-756
caseTypingIndicator(S, env, ws, message) ==
    broadcastMessage(
        S, env,
        [WebSocketMessage("typing_indicator", message.userId) EXCEPT
            !.channelId = message.channelId, !.dmId = message.dmId,
            !.isTyping = message.isTyping, !.timestamp = env.now],
        ws)

\* a handler that registers the socket before it looks at the frame
onMessage_RegistersFirst(S, env, ws, frame) ==
    LET message == frame.msg
        S1 == [S EXCEPT !.clients = MapSet(@, ws, message.userId)]
    IN  IF ~frame.parses THEN S1
        ELSE IF Falsy(message.type) \/ Falsy(message.userId) THEN S1
        ELSE CASE message.type = "new_message" ->
                      caseNewMessage(S1, env, ws, message)
               [] message.type = "presence_update" ->
                      casePresenceUpdate(S1, env, ws, message)
               [] message.type = "typing_indicator" ->
                      caseTypingIndicator(S1, env, ws, message)
               [] OTHER -> broadcastMessage(S1, env, message, ws)

\* ws.on('message'), lines 671-764.  frame.parses: JSON.parse succeeds.
onMessage(S, env, ws, frame) ==
    LET message == frame.msg IN
    IF ~frame.parses THEN S
    ELSE IF Falsy(message.type) \/ Falsy(message.userId) THEN S
    ELSE LET S1 == [S EXCEPT !.clients = MapSet(@, ws, message.userId)] IN
         CASE message.type = "new_message" ->
                  caseNewMessage(S1, env, ws, message)
           [] message.type = "presence_update" ->
                  casePresenceUpdate(S1, env, ws, message)
           [] message.type = "typing_indicator" ->
                  caseTypingIndicator(S1, env, ws, message)
           [] OTHER -> broadcastMessage(S1, env, message, ws)

RECURSIVE replayPresence(_, _, _, _)
\* a replay that broadcasts each record instead of sending it to ws alone
replayPresence_ToEveryone(S, env, ws, i) ==
    IF i > Len(S.presence) THEN S
    ELSE LET p == S.presence[i]
             ev == [WebSocketMessage("presence_update", p.userId) EXCEPT
                       !.status = p.status, !.lastSeen = p.lastSeen,
                       !.timestamp = env.now]
             others == SelectSeq(Keys(S.clients),
                                 LAMBDA c : c # ws /\ env.rs[c] = "OPEN")
         IN  replayPresence(
                 [S EXCEPT !.trace =
                     Append(@, SendEntry(ws, ev, ~SendThrows(env, ws), 0))
                     \o [k \in 1..Len(others) |->
                            SendEntry(others[k], ev, TRUE, 0)]],
                 env, ws, i + 1)

\* userPresenceInMemory.forEach of lines 643-656: a throwing send is caught
replayPresence(S, env, ws, i) ==
    IF i > Len(S.presence) THEN S
    ELSE LET p == S.presence[i]
             ev == [WebSocketMessage("presence_update", p.userId) EXCEPT
                       !.status = p.status, !.lastSeen = p.lastSeen,
                       !.timestamp = env.now]
         IN  replayPresence(
                 [S EXCEPT !.trace =
                     Append(@, SendEntry(ws, ev, ~SendThrows(env, ws), 0))],
                 env, ws, i + 1)

RECURSIVE replayMessages(_, _, _, _)
\* messagesInMemory.forEach of lines 659-668
replayMessages(S, env, ws, i) ==
    IF i > Len(S.messages) THEN S
    ELSE replayMessages(
             IF S.messages[i].type = "new_message"
             THEN [S EXCEPT !.trace =
                      Append(@, SendEntry(ws, S.messages[i],
                                          ~SendThrows(env, ws), 0))]
             ELSE S,
             env, ws, i + 1)

\* wss.on('connection'), lines 632-668.  The connection_established frame
\* is written outside any try; the replayed frames may throw and are caught.
onConnection(S, env, ws) ==
    LET established ==
            [WebSocketMessage("connection_established", Undef) EXCEPT
                !.timestamp = env.now]
        S1 == [S EXCEPT !.trace =
                  Append(@, SendEntry(ws, established, TRUE, 0))]
    IN  replayMessages(replayPresence(S1, env, ws, 1), env, ws, 1)

----------------------------------------------------------------------------
(* The hub's actions *)

\* frames a client may put on the wire
Frame(m) == [parses |-> TRUE, msg |-> m]
NoFrame == [parses |-> FALSE, msg |-> WebSocketMessage(Undef, Undef)]
\* the user id the client behind a socket puts in its frames
Identity == [ws \in Conns |-> IF ws = "c1" THEN "jane" ELSE "bob"]
Frames(ws) ==
    LET u == Identity[ws] IN
    { NoFrame,
      Frame(WebSocketMessage(Undef, u)),
      Frame(WebSocketMessage("new_message", u)),
      Frame([WebSocketMessage("new_message", u) EXCEPT
                !.content = "hi", !.channelId = "1"]),
      Frame(WebSocketMessage("presence_update", u)),
      Frame([WebSocketMessage("presence_update", u) EXCEPT
                !.status = "online"]),
      Frame([WebSocketMessage("typing_indicator", u) EXCEPT
                !.isTyping = "true", !.channelId = "1"]),
      Frame([WebSocketMessage("message_edited", u) EXCEPT !.content = "hi"]) }

\* a frame on which the hub issues a message id
IssuesId(frame) ==
    /\ frame.parses
    /\ frame.msg.type = "new_message"
    /\ ~Falsy(frame.msg.userId)
    /\ ~Falsy(frame.msg.content)

HubState ==
    [clients |-> clients, presence |-> userPresenceInMemory,
     messages |-> messagesInMemory, pending |-> pendingMessages,
     nextId |-> nextId, trace |-> <<>>]

Commit(S) ==
    /\ clients' = S.clients
    /\ userPresenceInMemory' = S.presence
    /\ messagesInMemory' = S.messages
    /\ pendingMessages' = S.pending
    /\ nextId' = S.nextId

HubInit ==
    /\ clients = <<>>
    /\ userPresenceInMemory = <<>>
    /\ messagesInMemory = <<>>
    /\ pendingMessages = {}
    /\ readyState = [ws \in Conns |-> "CLOSED"]
    /\ nextId = 0

\* the upgrade of a new socket is accepted: wss emits 'connection'
Connection(ws, fail, t) ==
    /\ UNCHANGED <<cliVars, connVars, uiVars>>
    /\ readyState[ws] = "CLOSED"
    /\ readyState' = [readyState EXCEPT ![ws] = "OPEN"]
    /\ Commit(onConnection(HubState,
                           [fail |-> fail, rs |-> readyState', now |-> t],
                           ws))

\* ws emits 'message'
Message(ws, frame, fail, t) ==
    /\ UNCHANGED <<cliVars, connVars, uiVars>>
    /\ readyState[ws] = "OPEN"
    /\ IssuesId(frame) => nextId < MaxMsgs
    /\ Commit(onMessage(HubState,
                        [fail |-> fail, rs |-> readyState, now |-> t],
                        ws, frame))
    /\ UNCHANGED readyState

\* the closing handshake starts: readyState leaves OPEN, no handler runs
\* until 'close'
Closing(ws) ==
    /\ UNCHANGED <<cliVars, connVars, uiVars>>
    /\ readyState[ws] = "OPEN"
    /\ readyState' = [readyState EXCEPT ![ws] = "CLOSING"]
    /\ UNCHANGED <<clients, userPresenceInMemory, messagesInMemory,
                   pendingMessages, nextId>>

\* ws emits 'error' (lines 771-774); the socket is then on its way to 'close'
Error(ws, fail, t) ==
    /\ UNCHANGED <<cliVars, connVars, uiVars>>
    /\ readyState[ws] = "OPEN"
    /\ readyState' = [readyState EXCEPT ![ws] = "CLOSING"]
    /\ Commit(cleanupClient(HubState,
                            [fail |-> fail, rs |-> readyState', now |-> t],
                            ws))

\* ws emits 'close' (lines 766-769)
Close(ws, fail, t) ==
    /\ UNCHANGED <<cliVars, connVars, uiVars>>
    /\ readyState[ws] \in {"OPEN", "CLOSING"}
    /\ readyState' = [readyState EXCEPT ![ws] = "CLOSED"]
    /\ Commit(cleanupClient(HubState,
                            [fail |-> fail, rs |-> readyState', now |-> t],
                            ws))

\* the sockets a send may throw on while a handler runs: a send is only
\* tried on the handler's own socket and on registered OPEN sockets
FailSets(ws) ==
    SUBSET {c \in Conns :
               readyState[c] = "OPEN" /\ (c = ws \/ MapHas(clients, c))}

Next ==
    \/ \E ws \in Conns, t \in Times :
           \E fail \in SUBSET {ws} : Connection(ws, fail, t)
    \/ \E ws \in Conns, t \in Times :
           \E frame \in Frames(ws), fail \in FailSets(ws) :
               Message(ws, frame, fail, t)
    \/ \E ws \in Conns : Closing(ws)
    \/ \E ws \in Conns, t \in Times :
           \E fail \in FailSets(ws) : Error(ws, fail, t)
    \/ \E ws \in Conns, t \in Times :
           \E fail \in FailSets(ws) : Close(ws, fail, t)

----------------------------------------------------------------------------
(* The runs a hub handler can make from the current state *)

\* a run of ws.on('message'): reg is the registry once line 682 has run
MessageRuns ==
    UNION {
      { [op |-> "message", ws |-> ws, frame |-> frame, fail |-> fail,
         rs |-> readyState,
         reg |-> IF frame.parses /\ ~Falsy(frame.msg.type)
                    /\ ~Falsy(frame.msg.userId)
                 THEN MapSet(clients, ws, frame.msg.userId) ELSE clients,
         S |-> onMessage(HubState,
                         [fail |-> fail, rs |-> readyState, now |-> t],
                         ws, frame)] :
        frame \in {f \in Frames(ws) : IssuesId(f) => nextId < MaxMsgs},
        fail \in FailSets(ws), t \in Times } :
      ws \in {c \in Conns : readyState[c] = "OPEN"} }

\* a run of ws.on('close') or ws.on('error')
CleanupRuns ==
    UNION {
      { [op |-> o, ws |-> ws, frame |-> NoFrame, fail |-> fail,
         rs |-> [readyState EXCEPT ![ws] =
                    IF o = "close" THEN "CLOSED" ELSE "CLOSING"],
         reg |-> clients,
         S |-> cleanupClient(
                   HubState,
                   [fail |-> fail,
                    rs |-> [readyState EXCEPT ![ws] =
                               IF o = "close" THEN "CLOSED" ELSE "CLOSING"],
                    now |-> t],
                   ws)] :
        o \in {x \in {"close", "error"} : x = "error" => readyState[ws] = "OPEN"},
        fail \in FailSets(ws), t \in Times } :
      ws \in {c \in Conns : readyState[c] \in {"OPEN", "CLOSING"}} }

Runs == MessageRuns \cup CleanupRuns

\* the broadcastMessage calls of a run, as positions in its trace
Calls(run) ==
    {i \in 1..Len(run.S.trace) : run.S.trace[i].k = "call"}
\* the sends of call i to socket c that returned
Delivered(run, i, c) ==
    {j \in 1..Len(run.S.trace) :
        /\ run.S.trace[j].k = "send"
        /\ run.S.trace[j].call = i
        /\ run.S.trace[j].to = c
        /\ run.S.trace[j].ok}
\* the sends that threw
Thrown(run) ==
    {j \in 1..Len(run.S.trace) :
        run.S.trace[j].k = "send" /\ ~run.S.trace[j].ok}
\* the sends of call i to socket c, returned or not
Tried(run, i, c) ==
    {j \in 1..Len(run.S.trace) :
        /\ run.S.trace[j].k = "send"
        /\ run.S.trace[j].call = i
        /\ run.S.trace[j].to = c}
\* the sockets call i is meant for: registered and OPEN when it starts,
\* other than the excluded one
Audience(run, i) ==
    {c \in run.S.trace[i].targets :
        c # run.S.trace[i].excl /\ run.rs[c] = "OPEN"}

----------------------------------------------------------------------------
(* The hub's intake: what ws.on('message') does with each kind of frame *)

\* the sockets that take part in the intake runs
IntakeConns == {"c1", "c2"}
\* channelMembers (the table read at lines 49-59): jane and bob are members
\* of channel "1", only jane is a member of channel "2"
ChannelMembers(channelId) ==
    IF channelId = "1" THEN {"jane", "bob"}
    ELSE IF channelId = "2" THEN {"jane"}
    ELSE {}
\* the presence states of a PresenceRecord (the type at line 594)
PresenceStatuses == {"online", "busy", "offline"}
\* content.trim()
Trim(content) == IF content \in {"", " ", "  "} THEN "" ELSE content

\* a user id other than the one the client normally sends
OtherUser(u) == IF u = "jane" THEN "bob" ELSE "jane"

\* the frames a client may put on the wire, well-formed or not
IntakeFrames(ws) ==
    LET u == Identity[ws]
        hi == [WebSocketMessage("new_message", u) EXCEPT !.content = "hi"]
    IN  { NoFrame,
          Frame(WebSocketMessage(Undef, u)),
          Frame([hi EXCEPT !.userId = Undef, !.channelId = "1"]),
          Frame([WebSocketMessage("new_message", u) EXCEPT !.channelId = "1"]),
          Frame([hi EXCEPT !.channelId = "1"]),
          Frame([hi EXCEPT !.content = "  ", !.channelId = "1"]),
          Frame(hi),
          Frame([hi EXCEPT !.channelId = "1", !.dmId = "d1"]),
          Frame([hi EXCEPT !.channelId = "2"]),
          Frame(WebSocketMessage("presence_update", u)),
          Frame([WebSocketMessage("presence_update", u) EXCEPT
                    !.status = "online"]),
          Frame([WebSocketMessage("presence_update", u) EXCEPT
                    !.status = "away"]),
          Frame([WebSocketMessage("message_confirmed", u) EXCEPT
                    !.id = MessageId(0), !.content = "hi", !.channelId = "1"]),
          Frame(WebSocketMessage("connection_established", u)),
          Frame([WebSocketMessage("typing_indicator", OtherUser(u)) EXCEPT
                    !.isTyping = "true", !.channelId = "1"]) }

\* the frames the claims call malformed or incomplete: unparseable, without
\* type or userId, new_message without content, presence_update without
\* status
Malformed(frame) ==
    \/ ~frame.parses
    \/ Falsy(frame.msg.type)
    \/ Falsy(frame.msg.userId)
    \/ frame.msg.type = "new_message" /\ Falsy(frame.msg.content)
    \/ frame.msg.type = "presence_update" /\ Falsy(frame.msg.status)

NextIntake ==
    \/ \E ws \in IntakeConns, t \in Times :
           \E fail \in SUBSET {ws} : Connection(ws, fail, t)
    \/ \E ws \in IntakeConns, t \in Times :
           \E frame \in IntakeFrames(ws), fail \in FailSets(ws) :
               Message(ws, frame, fail, t)
    \/ \E ws \in IntakeConns : Closing(ws)
    \/ \E ws \in IntakeConns, t \in Times :
           \E fail \in FailSets(ws) : Error(ws, fail, t)
    \/ \E ws \in IntakeConns, t \in Times :
           \E fail \in FailSets(ws) : Close(ws, fail, t)

\* the runs ws.on('message') can make from the current state on the frames
\* of IntakeFrames
IntakeRuns ==
    UNION {
      { [op |-> "message", ws |-> ws, frame |-> frame, fail |-> fail,
         rs |-> readyState,
         reg |-> IF frame.parses /\ ~Falsy(frame.msg.type)
                    /\ ~Falsy(frame.msg.userId)
                 THEN MapSet(clients, ws, frame.msg.userId) ELSE clients,
         S |-> onMessage(HubState,
                         [fail |-> fail, rs |-> readyState, now |-> t],
                         ws, frame)] :
        frame \in {f \in IntakeFrames(ws) : IssuesId(f) => nextId < MaxMsgs},
        fail \in FailSets(ws), t \in Times } :
      ws \in {c \in IntakeConns : readyState[c] = "OPEN"} }

\* the runs ws.on('message') can make from the current state on a
\* new_message frame that passes the checks of lines 676 and 686
AcceptRuns ==
    UNION {
      { [op |-> "message", ws |-> ws, frame |-> frame, fail |-> fail,
         rs |-> readyState,
         reg |-> MapSet(clients, ws, frame.msg.userId),
         S |-> onMessage(HubState,
                         [fail |-> fail, rs |-> readyState, now |-> t],
                         ws, frame)] :
        frame \in {f \in IntakeFrames(ws) : IssuesId(f)},
        fail \in FailSets(ws), t \in Times } :
      ws \in {c \in IntakeConns : readyState[c] = "OPEN"} }

\* the runs wss.on('connection') can make from the current state
ConnectionRuns ==
    UNION {
      { [op |-> "connection", ws |-> ws, frame |-> NoFrame, fail |-> fail,
         rs |-> [readyState EXCEPT ![ws] = "OPEN"],
         reg |-> clients,
         S |-> onConnection(
                   HubState,
                   [fail |-> fail,
                    rs |-> [readyState EXCEPT ![ws] = "OPEN"], now |-> t],
                   ws)] :
        fail \in SUBSET {ws}, t \in Times } :
      ws \in {c \in IntakeConns : readyState[c] = "CLOSED"} }

\* the sends of a run, as positions in its trace
Sends(run) ==
    {j \in 1..Len(run.S.trace) : run.S.trace[j].k = "send"}

----------------------------------------------------------------------------
(* The client's message list: useWebSocket (client/src/lib/types.ts) *)

\* mockUsers (mock-data.ts, lines 3-7), by id; mockUsers[0] is "current"
MockUserIds == <<"current", "jane", "bob">>
\* mockUsers.find(u => u.id === data.userId) || mockUsers[0]
Sender(userId) ==
    IF \E k \in 1..Len(MockUserIds) : MockUserIds[k] = userId
    THEN userId ELSE MockUserIds[1]

\* `temp_${Date.now()}`
TempId(t) == <<"temp", t>>
\* m.id.startsWith('temp_')
IsTemp(id) == id # <<>> /\ id[1] = "temp"

\* Message (lines 21-32); timestamp is the time in ms that
\* new Date(timestamp).getTime() gives
ClientMessage(id, content, sender, timestamp, data, readBy) ==
    [id |-> id, content |-> content, sender |-> sender,
     timestamp |-> timestamp, channelId |-> data.channelId,
     dmId |-> data.dmId, readBy |-> readBy, parentId |-> data.parentId]

\* a sort step that puts m in front of the entries of its own timestamp
InsertByTimestamp_BeforeEqual(L, m) ==
    LET n == Cardinality({k \in 1..Len(L) : L[k].timestamp < m.timestamp})
    IN  SubSeq(L, 1, n) \o <<m>> \o SubSeq(L, n + 1, Len(L))

\* one step of a stable sort: m goes behind every entry that is not later
InsertByTimestamp(L, m) ==
    LET n == Cardinality({k \in 1..Len(L) : L[k].timestamp <= m.timestamp})
        \* L is sorted, so these are its first n entries
    IN  SubSeq(L, 1, n) \o <<m>> \o SubSeq(L, n + 1, Len(L))
RECURSIVE sortByTimestamp(_)
\* .sort((a, b) => new Date(a.timestamp).getTime() -
\*                 new Date(b.timestamp).getTime()): Array.prototype.sort is
\* stable, entries with equal timestamps keep their order
sortByTimestamp(L) ==
    IF L = <<>> THEN <<>>
    ELSE InsertByTimestamp(sortByTimestamp(SubSeq(L, 1, Len(L) - 1)),
                           L[Len(L)])

\* prev.filter(m => m.id.startsWith('temp_') ? m.content !== content : true)
dropPlaceholders(L, content) ==
    SelectSeq(L, LAMBDA m : IF IsTemp(m.id) THEN m.content # content ELSE TRUE)

\* socket.onmessage, case 'new_message' (lines 137-175); now is new Date()
onNewMessage(L, data, t) ==
    IF Falsy(data.content) \/ Falsy(data.userId) \/ data.id = <<>> THEN L
    ELSE LET newMessage ==
                 ClientMessage(data.id, data.content, Sender(data.userId),
                               IF data.timestamp = 0 THEN t ELSE data.timestamp,
                               data, data.readBy)
         IN  IF \E k \in 1..Len(L) : L[k].id = newMessage.id THEN L
             ELSE sortByTimestamp(
                      Append(dropPlaceholders(L, newMessage.content),
                             newMessage))

\* a confirmation handler that keeps the placeholder
onMessageConfirmed_KeepsPlaceholder(L, data, t) ==
    IF data.id = <<>> \/ Falsy(data.content) THEN L
    ELSE sortByTimestamp(
             Append(L,
                    ClientMessage(data.id, data.content, MockUserIds[1],
                                  IF data.timestamp = 0 THEN t
                                  ELSE data.timestamp,
                                  data, <<MockUserIds[1]>>)))

\* socket.onmessage, case 'message_confirmed' (lines 177-208)
onMessageConfirmed(L, data, t) ==
    IF data.id = <<>> \/ Falsy(data.content) THEN L
    ELSE LET filtered == dropPlaceholders(L, data.content)
             confirmedMessage ==
                 ClientMessage(data.id, data.content, MockUserIds[1],
                               IF data.timestamp = 0 THEN t
                               ELSE data.timestamp,
                               data, <<MockUserIds[1]>>)
         IN  sortByTimestamp(Append(filtered, confirmedMessage))

\* sendMessage (lines 283-317) on an OPEN socket: the placeholder is added
\* before ws.send is tried
sendMessage(L, message, t) ==
    IF message.type = "new_message" /\ ~Falsy(message.content)
    THEN sortByTimestamp(
             Append(L,
                    ClientMessage(TempId(t), message.content, MockUserIds[1],
                                  t, [message EXCEPT !.parentId = Undef],
                                  <<MockUserIds[1]>>)))
    ELSE L

\* sendMessage with its return value: the placeholder is in the list when
\* ws.send (line 310) throws, and the catch (lines 312-315) only logs and
\* returns false
sendMessageResult(L, message, t, throws) ==
    [messages |-> sendMessage(L, message, t), returned |-> ~throws]

\* mockChannelMessages (mock-data.ts, lines 20-42): two messages of channel
\* "1" that are older than every message of a session
MockChannelMessages ==
    << [id |-> <<"mock", 1>>, content |-> "m1", sender |-> MockUserIds[1],
        timestamp |-> 0, channelId |-> "1", dmId |-> Undef, readBy |-> <<>>,
        parentId |-> Undef],
       [id |-> <<"mock", 2>>, content |-> "m2", sender |-> MockUserIds[2],
        timestamp |-> 0, channelId |-> "1", dmId |-> Undef, readBy |-> <<>>,
        parentId |-> Undef] >>

\* the key of msg in messageMap (Channel.tsx, lines 35-42): the content for
\* a placeholder, the id otherwise
ViewKey(msg) ==
    IF IsTemp(msg.id) THEN <<"content", msg.content>> ELSE <<"id", msg.id>>
RECURSIVE dedupView(_, _, _)
\* allMessages.forEach of Channel.tsx, lines 33-43; map is a sequence of
\* [key, value] in insertion order: a placeholder is kept only when its key
\* is new, another message takes the place of the value under its key
dedupView(map, all, i) ==
    IF i > Len(all) THEN map
    ELSE LET msg == all[i]
             has == \E k \in 1..Len(map) : map[k].key = ViewKey(msg)
         IN  dedupView(
                 IF IsTemp(msg.id)
                 THEN IF has THEN map
                      ELSE Append(map, [key |-> ViewKey(msg), value |-> msg])
                 ELSE IF has
                      THEN [k \in 1..Len(map) |->
                               IF map[k].key = ViewKey(msg)
                               THEN [key |-> ViewKey(msg), value |-> msg]
                               ELSE map[k]]
                      ELSE Append(map, [key |-> ViewKey(msg), value |-> msg]),
                 all, i + 1)
\* localMessages of the channel page for channel id (Channel.tsx, 22-45)
channelView(wsMessages, id) ==
    LET mockMessages == SelectSeq(MockChannelMessages,
                                  LAMBDA m : m.channelId = id)
        channelMessages == SelectSeq(wsMessages, LAMBDA m : m.channelId = id)
        allMessages == sortByTimestamp(mockMessages \o channelMessages)
        messageMap == dedupView(<<>>, allMessages, 1)
    IN  [k \in 1..Len(messageMap) |-> messageMap[k].value]

\* the messages the hub may hold: each id has one content, author and
\* timestamp
ServerMessages ==
    { [WebSocketMessage("new_message", u) EXCEPT
          !.id = MessageId(n), !.content = c, !.channelId = "1",
          !.timestamp = ts, !.readBy = <<u>>] :
      <<n, u, c, ts>> \in { <<1, "current", "hi", 1>>,
                            <<2, "current", "hi", 2>>,
                            <<3, "jane", "yo", 1>> } }
\* the hub's reply to the sender of m (lines 704-712)
ConfirmationOf(m) ==
    Confirmation(m, m.id, m.timestamp)
\* what the client may be asked to send
Outgoing ==
    { [WebSocketMessage("new_message", MockUserIds[1]) EXCEPT
          !.content = c, !.channelId = "1"] : c \in {"hi", "yo"} }
    \cup { WebSocketMessage("new_message", MockUserIds[1]),
           [WebSocketMessage("typing_indicator", MockUserIds[1]) EXCEPT
               !.isTyping = "true", !.channelId = "1"] }
\* the new_message events the client may receive
IncomingNew ==
    ServerMessages
    \cup { [m EXCEPT !.content = Undef] : m \in ServerMessages }
\* the message_confirmed events the client may receive
IncomingConfirmed ==
    LET own == {ConfirmationOf(m) :
                   m \in {x \in ServerMessages : x.userId = MockUserIds[1]}}
    IN  own \cup { [e EXCEPT !.id = <<>>] : e \in own }

CliInit ==
    /\ messages = <<>>
    /\ clock = 1

\* the user sends a message through the hook
SendMessage(message) ==
    /\ Len(messages) < MaxList
    /\ messages' = sendMessage(messages, message, clock)
    /\ UNCHANGED <<clock, hubVars, connVars, uiVars>>

\* a new_message event arrives
ReceiveNewMessage(data) ==
    /\ Len(messages) < MaxList
    /\ messages' = onNewMessage(messages, data, clock)
    /\ UNCHANGED <<clock, hubVars, connVars, uiVars>>

\* a message_confirmed event arrives
ReceiveConfirmed(data) ==
    /\ Len(messages) < MaxList
    /\ messages' = onMessageConfirmed(messages, data, clock)
    /\ UNCHANGED <<clock, hubVars, connVars, uiVars>>

\* time passes in the browser
ClientTick ==
    /\ clock < MaxClock
    /\ clock' = clock + 1
    /\ UNCHANGED <<messages, hubVars, connVars, uiVars>>

NextClient ==
    \/ \E message \in Outgoing : SendMessage(message)
    \/ \E data \in IncomingNew : ReceiveNewMessage(data)
    \/ \E data \in IncomingConfirmed : ReceiveConfirmed(data)
    \/ ClientTick

----------------------------------------------------------------------------
(* The client's connection effect: useWebSocket, lines 79-281 *)
(*                                                                         *)
(* A handler that sets retryCount or reconnectTimer makes React render     *)
(* again and, the effect's dependencies [retryCount, reconnectTimer]       *)
(* having changed, run the effect's cleanup and then the effect anew.      *)
(* That happens before any timer of a second or more can expire, so it is  *)
(* part of the handler's action.                                           *)

\* retryCount < 5 (line 244)
MaxRetries == 5
\* 1000 * Math.pow(2, retryCount) (line 245)
BaseDelay == 1000
\* Math.min(..., 10000) (line 245)
MaxDelay == 10000

RECURSIVE Pow2(_)
Pow2(n) == IF n = 0 THEN 1 ELSE 2 * Pow2(n - 1)
\* nextRetry, line 245
Backoff(n) ==
    IF BaseDelay * Pow2(n) < MaxDelay THEN BaseDelay * Pow2(n) ELSE MaxDelay

\* the hook's connection state, as one record
ConnState ==
    [retryCount |-> retryCount, reconnectTimer |-> reconnectTimer,
     effects |-> effects, sockets |-> sockets, timers |-> timers]

\* clearTimeout(id); id 0 is undefined
clearTimeout(C, id) ==
    IF id = 0 THEN C ELSE [C EXCEPT !.timers[id].armed = FALSE]

\* socket.close()
closeSocket(C, sk) ==
    IF sk # 0 /\ C.sockets[sk].state \in {"CONNECTING", "OPEN"}
    THEN [C EXCEPT !.sockets[sk].state = "CLOSING"]
    ELSE C

\* connect() (lines 83-268) called in effect e: a new socket, kept in the
\* effect's `socket`; `by` tells where connect was called from, `waited` the
\* delay of the timer that called it
connect(C, e, by, waited) ==
    IF C.effects[e].isDestroyed THEN C
    ELSE [C EXCEPT
             !.sockets = Append(@, [state |-> "CONNECTING", effect |-> e,
                                    opened |-> FALSE, by |-> by,
                                    waited |-> waited,
                                    retry |-> C.retryCount]),
             !.effects[e].socket = Len(C.sockets) + 1]

\* the effect body (lines 80-270): a closure over the rendered retryCount
\* and reconnectTimer, which calls connect()
runEffect(C) ==
    LET e == Len(C.effects) + 1
        C1 == [C EXCEPT !.effects =
                  Append(@, [retryCount |-> C.retryCount,
                             reconnectTimer |-> C.reconnectTimer,
                             isDestroyed |-> FALSE, socket |-> 0])]
    IN  connect(C1, e, "effect", 0)

\* a cleanup that forgets socket.close()
cleanupEffect_LeavesSocket(C, e) ==
    clearTimeout([C EXCEPT !.effects[e].isDestroyed = TRUE],
                 C.effects[e].reconnectTimer)

\* the effect's cleanup (lines 272-280)
cleanupEffect(C, e) ==
    closeSocket(
        clearTimeout([C EXCEPT !.effects[e].isDestroyed = TRUE],
                     C.effects[e].reconnectTimer),
        C.effects[e].socket)

\* React renders after a state update: the live effect is the last one, and
\* it is cleaned up and run again when a dependency differs from the value
\* it was run with (line 281)
rerender(C) ==
    LET e == Len(C.effects) IN
    IF C.effects[e].retryCount # C.retryCount
       \/ C.effects[e].reconnectTimer # C.reconnectTimer
    THEN runEffect(cleanupEffect(C, e))
    ELSE C

\* socket.onopen (lines 93-104) of socket sk
onopen(C, sk) ==
    LET e == C.sockets[sk].effect IN
    IF C.effects[e].isDestroyed THEN C
    ELSE LET C1 == [C EXCEPT !.retryCount = 0] IN
         IF C.effects[e].reconnectTimer # 0
         THEN [clearTimeout(C1, C.effects[e].reconnectTimer)
                  EXCEPT !.reconnectTimer = 0]
         ELSE C1

\* socket.onclose (lines 235-257) of socket sk
onclose(C, sk) ==
    LET e == C.sockets[sk].effect IN
    IF C.effects[e].isDestroyed THEN C
    ELSE IF C.effects[e].retryCount < MaxRetries
    THEN [C EXCEPT
             !.timers = Append(@, [armed |-> TRUE, effect |-> e,
                                   delay |-> Backoff(C.effects[e].retryCount)]),
             !.reconnectTimer = Len(C.timers) + 1]
    ELSE C

\* the setTimeout callback (lines 248-253) of timer t
onTimeout(C, t) ==
    LET e == C.timers[t].effect IN
    IF C.effects[e].isDestroyed THEN C
    ELSE connect([C EXCEPT !.retryCount = @ + 1], e, "timer",
                 C.timers[t].delay)

\* longest sequence of sockets the hook may create
MaxSockets == 8

CommitConn(C) ==
    /\ retryCount' = C.retryCount
    /\ reconnectTimer' = C.reconnectTimer
    /\ effects' = C.effects
    /\ sockets' = C.sockets
    /\ timers' = C.timers

\* the hook has mounted and its effect has run once
ConnInit ==
    /\ mounted = TRUE
    /\ LET C == runEffect([retryCount |-> 0, reconnectTimer |-> 0,
                           effects |-> <<>>, sockets |-> <<>>,
                           timers |-> <<>>])
       IN  /\ retryCount = C.retryCount
           /\ reconnectTimer = C.reconnectTimer
           /\ effects = C.effects
           /\ sockets = C.sockets
           /\ timers = C.timers

\* the connection of socket sk is established
SocketOpens(sk) ==
    /\ Len(sockets) < MaxSockets
    /\ sockets[sk].state = "CONNECTING"
    /\ LET C0 == [ConnState EXCEPT !.sockets[sk].state = "OPEN",
                                   !.sockets[sk].opened = TRUE]
       IN  CommitConn(IF mounted THEN rerender(onopen(C0, sk)) ELSE C0)
    /\ UNCHANGED <<mounted, hubVars, cliVars, uiVars>>

\* socket sk is closed: the attempt failed, the server went away, or the
\* close that the client asked for has completed
SocketCloses(sk) ==
    /\ Len(sockets) < MaxSockets
    /\ sockets[sk].state \in {"CONNECTING", "OPEN", "CLOSING"}
    /\ LET C0 == [ConnState EXCEPT !.sockets[sk].state = "CLOSED"]
       IN  CommitConn(IF mounted THEN rerender(onclose(C0, sk)) ELSE C0)
    /\ UNCHANGED <<mounted, hubVars, cliVars, uiVars>>

\* timer t expires
TimerFires(t) ==
    /\ Len(sockets) < MaxSockets
    /\ timers[t].armed
    /\ LET C0 == [ConnState EXCEPT !.timers[t].armed = FALSE]
       IN  CommitConn(IF mounted THEN rerender(onTimeout(C0, t)) ELSE C0)
    /\ UNCHANGED <<mounted, hubVars, cliVars, uiVars>>

\* the component unmounts: the live effect is cleaned up
Unmount ==
    /\ mounted
    /\ mounted' = FALSE
    /\ CommitConn(cleanupEffect(ConnState, Len(effects)))
    /\ UNCHANGED <<hubVars, cliVars, uiVars>>

NextConn ==
    \/ \E sk \in 1..Len(sockets) : SocketOpens(sk)
    \/ \E sk \in 1..Len(sockets) : SocketCloses(sk)
    \/ \E t \in 1..Len(timers) : TimerFires(t)
    \/ Unmount

----------------------------------------------------------------------------
(* The typing sets: useWebSocket onmessage case 'typing_indicator', and    *)
(* the hub's forwarding of typing_indicator frames                         *)

\* the conversation keys that occur: a channel id, a thread id, and '' for
\* an event that names neither
TypingKeys == {"1", "d1", ""}
\* data.channelId || data.dmId || ''
TypingKey(data) ==
    IF ~Falsy(data.channelId) THEN data.channelId
    ELSE IF ~Falsy(data.dmId) THEN data.dmId
    ELSE ""
\* if (data.isTyping): the boolean true
Truthy(isTyping) == isTyping = "true"

\* a handler that puts the user in the set whatever isTyping says
onTypingIndicator_AlwaysAdds(ti, data) ==
    IF Falsy(data.userId) THEN ti
    ELSE [ti EXCEPT ![TypingKey(data)] = @ \cup {data.userId}]

\* socket.onmessage, case 'typing_indicator' (lines 210-228); ti maps every
\* key to its set, a key the Map does not hold to the empty set
\* (next.get(key) || new Set())
onTypingIndicator(ti, data) ==
    IF Falsy(data.userId) THEN ti
    ELSE [ti EXCEPT ![TypingKey(data)] =
             IF Truthy(data.isTyping) THEN @ \cup {data.userId}
             ELSE @ \ {data.userId}]

\* the typing_indicator events the client may receive
TypingEvents ==
    { [WebSocketMessage("typing_indicator", u) EXCEPT
          !.channelId = ch, !.dmId = dm, !.isTyping = ty] :
      u \in Users \cup {Undef}, ch \in {Undef, "1"}, dm \in {Undef, "d1"},
      ty \in {"true", "false", Undef} }

TypInit ==
    /\ typingIndicators = [k \in TypingKeys |-> {}]
    /\ lastTyping = [k \in TypingKeys |-> [u \in Users |-> "none"]]

\* a typing_indicator event arrives at the client
ReceiveTyping(data) ==
    /\ typingIndicators' = onTypingIndicator(typingIndicators, data)
    /\ lastTyping' =
           IF Falsy(data.userId) THEN lastTyping
           ELSE [lastTyping EXCEPT ![TypingKey(data)][data.userId] =
                    IF Truthy(data.isTyping) THEN "true" ELSE "false"]
    /\ UNCHANGED <<hubVars, cliVars, connVars, inpVars>>

\* the typing_indicator frames a client may put on the wire
TypingFrames(ws) ==
    { Frame([WebSocketMessage("typing_indicator", Identity[ws]) EXCEPT
                !.isTyping = ty, !.dmId = "d1"]) : ty \in {"true", "false"} }

\* the runs ws.on('message') can make from the current state on a
\* typing_indicator frame
TypingRuns ==
    UNION {
      { [op |-> "message", ws |-> ws, frame |-> frame, fail |-> fail,
         rs |-> readyState,
         reg |-> MapSet(clients, ws, frame.msg.userId),
         S |-> onMessage(HubState,
                         [fail |-> fail, rs |-> readyState, now |-> t],
                         ws, frame)] :
        frame \in TypingFrames(ws), fail \in FailSets(ws), t \in Times } :
      ws \in {c \in IntakeConns : readyState[c] = "OPEN"} }

NextTyping ==
    \/ \E data \in TypingEvents : ReceiveTyping(data)
    \/ \E ws \in IntakeConns, t \in Times :
           \E fail \in SUBSET {ws} : Connection(ws, fail, t)
    \/ \E ws \in IntakeConns, t \in Times :
           \E frame \in TypingFrames(ws), fail \in FailSets(ws) :
               Message(ws, frame, fail, t)
    \/ \E ws \in IntakeConns, t \in Times :
           \E fail \in FailSets(ws) : Close(ws, fail, t)

----------------------------------------------------------------------------
(* The message input: MessageInput, typing timeout and handleSend *)
(*                                                                         *)
(* setTypingTimeout makes React render again and, typingTimeout being a    *)
(* dependency of the effect of lines 29-36, run the cleanup of the effect  *)
(* that captured the old value; that is part of the handler's action.      *)

\* number of typing timers the input may arm
MaxKeys == 6

\* the input's state, as one record; out is what the handler sends
InputState ==
    [draft |-> draft, typingTimeout |-> typingTimeout,
     typingTimers |-> typingTimers, isSending |-> isSending, out |-> <<>>]

\* updateTyping(isTyping, undefined, id) called in handler `by`
updateTyping(I, isTyping, by) ==
    [I EXCEPT !.out = Append(@, [isTyping |-> isTyping, by |-> by])]
\* clearTimeout(id) on a typing timer; id 0 is undefined
clearTypingTimeout(I, id) ==
    IF id = 0 THEN I ELSE [I EXCEPT !.typingTimers[id] = FALSE]

\* the cleanup of the effect of lines 29-36, which captured typingTimeout
\* `captured`; it runs inside handler `by`
typingCleanup(I, captured, by) ==
    IF captured # 0
    THEN updateTyping(clearTypingTimeout(I, captured), FALSE, by)
    ELSE I

\* handleTyping (lines 38-50), then the render that setTypingTimeout
\* causes: the new timer differs from the old value, so the old effect is
\* cleaned up
handleTyping(I) ==
    LET I1 == clearTypingTimeout(updateTyping(I, TRUE, "handleTyping"),
                                 I.typingTimeout)
        I2 == [I1 EXCEPT !.typingTimers = Append(@, TRUE),
                         !.typingTimeout = Len(I1.typingTimers) + 1]
    IN  typingCleanup(I2, I.typingTimeout, "handleTyping")

\* the callback of the typing timer (lines 45-47)
onTypingTimeout(I) == updateTyping(I, FALSE, "timeout")

\* handleSend after `await onSend` (lines 61-67, 70-72); ok: onSend did not
\* reject
handleSendDone(I, ok) ==
    LET I1 == IF ok
              THEN updateTyping(
                       clearTypingTimeout([I EXCEPT !.draft = ""],
                                          I.typingTimeout),
                       FALSE, "handleSend")
              ELSE I
    IN  [I1 EXCEPT !.isSending = FALSE]

CommitInput(I) ==
    /\ draft' = I.draft
    /\ typingTimeout' = I.typingTimeout
    /\ typingTimers' = I.typingTimers
    /\ isSending' = I.isSending
    /\ sent' = I.out

InputInit ==
    /\ draft = ""
    /\ typingTimeout = 0
    /\ typingTimers = <<>>
    /\ isSending = FALSE
    /\ sent = <<>>
    /\ inputMounted = TRUE

\* onChange of the textarea (lines 121-124)
Change(value) ==
    /\ inputMounted /\ ~isSending
    /\ Len(typingTimers) < MaxKeys
    /\ CommitInput(handleTyping([InputState EXCEPT !.draft = value]))
    /\ UNCHANGED <<inputMounted, hubVars, cliVars, connVars, typVars>>

\* onKeyPress with a key other than Enter (lines 75-82)
KeyPress ==
    /\ inputMounted /\ ~isSending
    /\ Len(typingTimers) < MaxKeys
    /\ CommitInput(handleTyping(InputState))
    /\ UNCHANGED <<inputMounted, hubVars, cliVars, connVars, typVars>>

\* a typing timer expires
TypingTimerFires(t) ==
    /\ typingTimers[t]
    /\ CommitInput(onTypingTimeout(
           [InputState EXCEPT !.typingTimers[t] = FALSE]))
    /\ UNCHANGED <<inputMounted, hubVars, cliVars, connVars, typVars>>

\* Enter or the send button: handleSend up to `await onSend` (lines 52-60)
HandleSend ==
    /\ inputMounted /\ ~isSending
    /\ Trim(draft) # ""
    /\ CommitInput([InputState EXCEPT !.isSending = TRUE])
    /\ UNCHANGED <<inputMounted, hubVars, cliVars, connVars, typVars>>

\* onSend settles
HandleSendDone(ok) ==
    /\ isSending
    /\ CommitInput(handleSendDone(InputState, ok))
    /\ UNCHANGED <<inputMounted, hubVars, cliVars, connVars, typVars>>

\* the input unmounts: the effect's cleanup runs
InputUnmount ==
    /\ inputMounted
    /\ inputMounted' = FALSE
    /\ CommitInput(typingCleanup(InputState, typingTimeout, "unmount"))
    /\ UNCHANGED <<hubVars, cliVars, connVars, typVars>>

NextInput ==
    \/ \E value \in {"hi", " "} : Change(value)
    \/ KeyPress
    \/ \E t \in 1..Len(typingTimers) : TypingTimerFires(t)
    \/ HandleSend
    \/ \E ok \in BOOLEAN : HandleSendDone(ok)
    \/ InputUnmount

----------------------------------------------------------------------------
(* Claims about the hub *)

\* the runs that handle an accepted new_message: type, userId and content
\* are present
AcceptedRuns == {r \in MessageRuns : IssuesId(r.frame)}
\* the sends of a run that returned and carry an event of the given type
SentOfType(r, type) ==
    {j \in 1..Len(r.S.trace) :
        /\ r.S.trace[j].k = "send"
        /\ r.S.trace[j].ok
        /\ r.S.trace[j].ev.type = type}
\* the broadcasts of a run that carry an event of the given type
CallsOfType(r, type) == {i \in Calls(r) : r.S.trace[i].ev.type = type}

\* the confirmation and the broadcast of run r agree: one message_confirmed,
\* sent to the sender; one new_message broadcast that excludes the sender
\* and carries the confirmation's id and timestamp; every socket in
\* `reached` is sent it once and the sender is sent no new_message
ConfirmedAndBroadcast(r, reached(_)) ==
    /\ Cardinality(SentOfType(r, "message_confirmed")) = 1
    /\ Cardinality(CallsOfType(r, "new_message")) = 1
    /\ \A j \in SentOfType(r, "message_confirmed") :
       \A i \in CallsOfType(r, "new_message") :
          /\ r.S.trace[j].to = r.ws
          /\ r.S.trace[j].call = 0
          /\ j < i
          /\ r.S.trace[i].excl = r.ws
          /\ r.S.trace[i].ev.id = r.S.trace[j].ev.id
          /\ r.S.trace[i].ev.id # <<>>
          /\ r.S.trace[i].ev.timestamp = r.S.trace[j].ev.timestamp
          /\ r.S.trace[i].ev.timestamp \in Times
          /\ r.S.trace[i].ev.content = r.frame.msg.content
          /\ \A c \in reached(i) : Cardinality(Delivered(r, i, c)) = 1
          /\ \A c \in Conns :
                Cardinality({k \in SentOfType(r, "new_message") :
                                r.S.trace[k].to = c})
                    = IF c \in reached(i) THEN 1 ELSE 0
    /\ \A k \in SentOfType(r, "new_message") : r.S.trace[k].to # r.ws

\* C1 as claimed: for every accepted new_message from connection s the hub
\* sends exactly one message_confirmed, to s, and exactly one new_message
\* with the same id and timestamp to every other registered OPEN
\* connection; s is not sent the broadcast; it never sends neither.
C1_AsClaimed ==
    \A r \in AcceptedRuns :
        ConfirmedAndBroadcast(r, LAMBDA i : Audience(r, i))

\* C1 amended: when the confirmation send to s returns, the hub has sent
\* exactly one message_confirmed, to s, and exactly one new_message with the
\* same id and timestamp to every other registered OPEN connection on which
\* the send does not throw, and none to s; when the confirmation send
\* throws, neither a confirmation nor a broadcast is sent.
C1_ConfirmationUniqueness ==
    \A r \in AcceptedRuns :
        IF r.ws \in r.fail
        THEN /\ Calls(r) = {}
             /\ \A j \in 1..Len(r.S.trace) : ~r.S.trace[j].ok
        ELSE ConfirmedAndBroadcast(r, LAMBDA i : Audience(r, i) \ r.fail)

\* C1 witness: an accepted new_message whose confirmation is sent while two
\* other registered OPEN connections are there, one of them failing
C1_Witness ==
    \E r \in AcceptedRuns :
        /\ r.ws \notin r.fail
        /\ \E i \in CallsOfType(r, "new_message") :
              /\ Cardinality(Audience(r, i)) = 2
              /\ Cardinality(Audience(r, i) \ r.fail) = 1

UnregisteredCleanups == {r \in CleanupRuns : ~MapHas(clients, r.ws)}

\* C8: cleanupClient on a connection that is not in the registry changes
\* neither the registry nor the presence store and sends nothing; every
\* cleanup broadcasts presence-offline once per connection it evicts.
C8_EvictionIdempotent ==
    /\ \A r \in UnregisteredCleanups :
          /\ r.S.clients = clients
          /\ r.S.presence = userPresenceInMemory
          /\ r.S.messages = messagesInMemory
          /\ r.S.trace = <<>>
    /\ \A r \in CleanupRuns :
          /\ Cardinality(Calls(r)) = Len(clients) - Len(r.S.clients)
          /\ \A i \in Calls(r) :
                /\ r.S.trace[i].ev.type = "presence_update"
                /\ r.S.trace[i].ev.status = "offline"
          /\ MapHas(clients, r.ws) =>
                Cardinality({i \in Calls(r) :
                    /\ r.S.trace[i].ev.userId = MapGet(clients, r.ws)
                    /\ r.ws \notin r.S.trace[i].targets
                    /\ \A j \in Thrown(r) : j > i}) = 1

\* C8 witness: 'close' is about to fire on a socket that 'error' (or a
\* failed send) has already evicted: it is CLOSING, no longer registered,
\* and its user is recorded offline
C8_Witness ==
    \E r \in UnregisteredCleanups :
        /\ r.op = "close"
        /\ readyState[r.ws] = "CLOSING"
        /\ \E k \in 1..Len(userPresenceInMemory) :
              /\ userPresenceInMemory[k].userId = Identity[r.ws]
              /\ userPresenceInMemory[k].status = "offline"
        /\ clients # <<>>

\* the user a socket is registered for while run r executes
UserIn(r, ws) == MapGet(r.reg, ws)

\* C9: a send that throws during a broadcast does not abort the fan-out:
\* every other registered OPEN connection (other than the excluded one) on
\* which no send throws is still sent the event, the failing connection is
\* evicted and recorded offline, and a presence_update offline for its user
\* is broadcast to the connections that remain.
C9_FailureIsolated ==
    \A r \in Runs : \A j \in Thrown(r) :
        LET f == r.S.trace[j].to
            i == r.S.trace[j].call
        IN  i # 0 =>
            /\ \A c \in (Audience(r, i) \ {f}) \ r.fail :
                  Cardinality(Delivered(r, i, c)) = 1
            /\ ~MapHas(r.S.clients, f)
            /\ \E k \in 1..Len(r.S.presence) :
                  /\ r.S.presence[k].userId = UserIn(r, f)
                  /\ r.S.presence[k].status = "offline"
            /\ \E i2 \in Calls(r) :
                  /\ i2 = j + 1
                  /\ r.S.trace[i2].ev.type = "presence_update"
                  /\ r.S.trace[i2].ev.status = "offline"
                  /\ r.S.trace[i2].ev.userId = UserIn(r, f)
                  /\ r.S.trace[i2].excl = Undef
                  /\ f \notin r.S.trace[i2].targets
                  /\ \A c \in Audience(r, i2) \ r.fail :
                        Cardinality(Delivered(r, i2, c)) = 1

\* C9 witness: one send of a broadcast throws, with a connection before and
\* a connection after the failing one in the registry
C9_Witness ==
    \E r \in Runs : \E j \in Thrown(r) :
        /\ Cardinality(r.fail) = 1
        /\ r.S.trace[j].call # 0
        /\ Len(r.reg) = 3
        /\ r.reg[2].ws = r.S.trace[j].to
        /\ \A c \in Conns : r.rs[c] = "OPEN"
        /\ r.S.trace[r.S.trace[j].call].excl = Undef

\* the presence-offline broadcasts of run r: the calls cleanupClient makes
OfflineCalls(r) ==
    {i \in Calls(r) : /\ r.S.trace[i].ev.type = "presence_update"
                      /\ r.S.trace[i].ev.status = "offline"
                      /\ r.S.trace[i].ev.lastSeen = 0}
\* the connection whose eviction makes call i: the one whose send threw
\* just before, or the handler's own socket on 'close' and 'error'
Evictee(r, i) ==
    IF i > 1 /\ r.S.trace[i - 1].k = "send" /\ ~r.S.trace[i - 1].ok
    THEN r.S.trace[i - 1].to
    ELSE r.ws

\* C19: the presence-offline broadcast made while evicting c starts with c
\* out of the registry and is never tried on c, c is not tried again later
\* in the handler and is evicted once, and the nesting ends: a handler
\* makes at most one throwing send per connection and at most one
\* broadcast more than there are registered connections.
C19_NestedEviction ==
    \A r \in Runs :
        /\ \A i \in OfflineCalls(r) :
               LET c == Evictee(r, i) IN
               /\ c \notin r.S.trace[i].targets
               /\ Tried(r, i, c) = {}
               /\ \A j \in (i + 1)..Len(r.S.trace) :
                      r.S.trace[j].k = "send" => r.S.trace[j].to # c
               /\ Cardinality({i2 \in OfflineCalls(r) :
                                  Evictee(r, i2) = c}) = 1
               /\ ~MapHas(r.S.clients, c)
        /\ \A c \in Conns :
               Cardinality({j \in Thrown(r) : r.S.trace[j].to = c}) <= 1
        /\ Cardinality(Calls(r)) <= Len(r.reg) + 1

\* C19's case: two connections fail in one handler, the second inside the
\* presence-offline broadcast of the first one's eviction
C19_Witness ==
    \E r \in Runs : \E j1, j2 \in Thrown(r) :
        /\ j1 < j2
        /\ r.S.trace[j1].to # r.S.trace[j2].to
        /\ r.S.trace[j1].call # 0
        /\ r.S.trace[j2].call = j1 + 1
        /\ r.S.trace[j2].call \in OfflineCalls(r)

\* the connections run r evicts
Evicted(r) == KeySet(r.reg) \ KeySet(r.S.clients)
\* the registry's connections when call i of run r starts, if every
\* eviction so far has made its broadcast
Remaining(r, i) ==
    KeySet(r.reg) \ {Evictee(r, i2) : i2 \in {x \in OfflineCalls(r) : x <= i}}
\* the presence-offline broadcast of run r for the eviction of c reaches
\* the sockets in `reached`
EvictionBroadcast(r, c, i, reached) ==
    /\ i \in OfflineCalls(r)
    /\ Evictee(r, i) = c
    /\ r.S.trace[i].ev.userId = UserIn(r, c)
    /\ r.S.trace[i].excl = Undef
    /\ r.S.trace[i].targets = Remaining(r, i)
    /\ \A d \in reached : Cardinality(Delivered(r, i, d)) = 1
\* user u is recorded offline when run r ends
OfflineAfter(r, u) ==
    \E k \in 1..Len(r.S.presence) :
        /\ r.S.presence[k].userId = u
        /\ r.S.presence[k].status = "offline"

\* C28 as claimed: evicting a registered connection of user u sets u
\* offline and the presence_update offline reaches every remaining
\* registered OPEN connection, also when another open connection of u
\* remains.
C28_AsClaimed ==
    \A r \in Runs :
        /\ r.op # "message" /\ MapHas(clients, r.ws) => r.ws \in Evicted(r)
        /\ \A c \in Evicted(r) :
               /\ OfflineAfter(r, UserIn(r, c))
               /\ \E i \in Calls(r) :
                      EvictionBroadcast(r, c, i, Audience(r, i))

\* C28: evicting a registered connection of user u sets u offline and
\* broadcasts presence_update offline for u, without exclusion, to the
\* connections that remain registered; every remaining OPEN one on which
\* no send throws is delivered it once, also when another open connection
\* of u remains.
C28_EvictionOffline ==
    \A r \in Runs :
        /\ r.op # "message" /\ MapHas(clients, r.ws) => r.ws \in Evicted(r)
        /\ \A c \in Evicted(r) :
               /\ OfflineAfter(r, UserIn(r, c))
               /\ \E i \in Calls(r) :
                      EvictionBroadcast(r, c, i, Audience(r, i) \ r.fail)

\* C28's case: a connection is evicted while another OPEN connection of the
\* same user stays registered and is told that the user is offline
C28_Witness ==
    \E r \in CleanupRuns : \E i \in OfflineCalls(r) : \E d \in Audience(r, i) :
        /\ Evictee(r, i) = r.ws
        /\ UserIn(r, d) = UserIn(r, r.ws)
        /\ Delivered(r, i, d) # {}
        /\ MapHas(r.S.clients, d)
        /\ OfflineAfter(r, UserIn(r, d))

\* C10 as claimed: when broadcastMessage(e1) is called before
\* broadcastMessage(e2), every connection that is sent both is sent e1
\* before e2, also when e2 is the presence-offline broadcast that an
\* eviction starts from inside e1's fan-out.
C10_AsClaimed ==
    \A r \in Runs : \A i1, i2 \in Calls(r) :
        i1 < i2 =>
            \A c \in Conns :
                \A j1 \in Delivered(r, i1, c), j2 \in Delivered(r, i2, c) :
                    j1 < j2

----------------------------------------------------------------------------
(* Claims about the hub's intake *)

\* the sends of run r that carry an event of the given type
SendsOfType(r, type) ==
    {j \in Sends(r) : r.S.trace[j].ev.type = type}
\* run r is the intake of a new_message frame that names its sender
IsNewMessage(r) ==
    /\ r.frame.parses
    /\ r.frame.msg.type = "new_message"
    /\ ~Falsy(r.frame.msg.userId)
\* run r rejected its frame: nothing confirmed, nothing broadcast, nothing
\* stored
Rejected(r) ==
    /\ SendsOfType(r, "message_confirmed") = {}
    /\ Calls(r) = {}
    /\ r.S.messages = messagesInMemory

\* C11 as the claim states it: a message_confirmed is only ever sent to the
\* connection whose new_message it confirms, whatever frames clients send.
C11_AsClaimed ==
    \A r \in IntakeRuns : \A j \in SendsOfType(r, "message_confirmed") :
        /\ r.S.trace[j].to = r.ws
        /\ r.frame.msg.type = "new_message"

\* C12 as the claim states it: a new_message whose content is empty after
\* trimming is rejected.
C12_AsClaimed ==
    \A r \in IntakeRuns :
        (IsNewMessage(r) /\ Falsy(Trim(r.frame.msg.content))) => Rejected(r)

\* the number of conversation references a frame carries
References(m) ==
    (IF Falsy(m.channelId) THEN 0 ELSE 1) + (IF Falsy(m.dmId) THEN 0 ELSE 1)

\* C13 as the claim states it: a new_message with no conversation
\* reference, or with both, is rejected.
C13_AsClaimed ==
    \A r \in IntakeRuns :
        (IsNewMessage(r) /\ References(r.frame.msg) # 1) => Rejected(r)

\* C14 as the claim states it: a new_message addressed to a channel of
\* which its sender is not a member is rejected.
C14_AsClaimed ==
    \A r \in IntakeRuns :
        (/\ IsNewMessage(r)
         /\ ~Falsy(r.frame.msg.channelId)
         /\ r.frame.msg.userId \notin ChannelMembers(r.frame.msg.channelId))
            => Rejected(r)

\* a well-formed new_message of the socket's user
ValidFrame(ws) ==
    Frame([WebSocketMessage("new_message", Identity[ws]) EXCEPT
              !.content = "hi", !.channelId = "1"])

\* C15: a malformed or incomplete frame is dropped: nothing is sent, the
\* presence store, the message log and the pending set are unchanged, the
\* socket stays OPEN, and a well-formed new_message that arrives next on
\* the same socket is confirmed.
C15_MalformedDropped ==
    \A r \in IntakeRuns :
        Malformed(r.frame) =>
            /\ r.S.trace = <<>>
            /\ r.S.presence = userPresenceInMemory
            /\ r.S.messages = messagesInMemory
            /\ r.S.pending = pendingMessages
            /\ r.S.nextId = nextId
            /\ r.rs[r.ws] = "OPEN"
            /\ LET after == onMessage(r.S, [fail |-> {}, rs |-> r.rs,
                                            now |-> 1],
                                      r.ws, ValidFrame(r.ws))
               IN  \E j \in 1..Len(after.trace) :
                       /\ after.trace[j].k = "send"
                       /\ after.trace[j].to = r.ws
                       /\ after.trace[j].ok
                       /\ after.trace[j].ev.type = "message_confirmed"

\* C15's case: a presence_update without status arrives while another
\* connection is registered and OPEN and the presence store holds a record
C15_Witness ==
    \E r \in IntakeRuns :
        /\ r.frame.parses
        /\ r.frame.msg.type = "presence_update"
        /\ Falsy(r.frame.msg.status)
        /\ Len(userPresenceInMemory) > 0
        /\ \E c \in KeySet(r.reg) \ {r.ws} : readyState[c] = "OPEN"

\* C16 as the claim states it: a connection is sent one
\* connection_established, first, when it is accepted, and no frame of a
\* client makes the hub send a connection_established.
C16_AsClaimed ==
    /\ \A r \in ConnectionRuns :
           /\ SendsOfType(r, "connection_established") = {1}
           /\ r.S.trace[1].to = r.ws
    /\ \A r \in IntakeRuns : SendsOfType(r, "connection_established") = {}

\* the presence_update that replays record p
Replayed(p, ev) ==
    /\ ev.type = "presence_update"
    /\ ev.userId = p.userId
    /\ ev.status = p.status
    /\ ev.lastSeen = p.lastSeen

C18_AsClaimed ==
    /\ \A i \in 1..Len(userPresenceInMemory) :
           userPresenceInMemory[i].status \in PresenceStatuses
    /\ \A r \in IntakeRuns \cup ConnectionRuns :
           \A j \in SendsOfType(r, "presence_update") :
               r.S.trace[j].ev.status \in PresenceStatuses

\* the frame of run r carries type and userId, so line 682 runs
Admits(r) ==
    /\ r.op = "message"
    /\ r.frame.parses
    /\ ~Falsy(r.frame.msg.type)
    /\ ~Falsy(r.frame.msg.userId)
\* the runs every handler of the hub can make from the current state
HandlerRuns == IntakeRuns \cup ConnectionRuns \cup CleanupRuns

\* C27: a connection enters the registry only in the handler of a frame of
\* its own that carries type and userId; that handler maps it to the
\* frame's userId and no handler changes the userId of another registered
\* connection; a broadcast is sent only to connections registered when it
\* starts, and an accepted connection is sent connection_established
\* first and then only replayed presence and messages.
C27_Registry ==
    /\ \A r \in HandlerRuns :
           /\ \A c \in KeySet(r.S.clients) \ KeySet(clients) :
                  c = r.ws /\ Admits(r)
           /\ \A c \in KeySet(r.S.clients) :
                  MapGet(r.S.clients, c) =
                      IF c = r.ws /\ Admits(r) THEN r.frame.msg.userId
                      ELSE MapGet(clients, c)
           /\ Admits(r) => r.reg = MapSet(clients, r.ws, r.frame.msg.userId)
           /\ \A j \in Sends(r) :
                  r.S.trace[j].call # 0 =>
                      r.S.trace[j].to \in r.S.trace[r.S.trace[j].call].targets
           /\ \A i \in Calls(r) : r.S.trace[i].targets \subseteq KeySet(r.reg)
    /\ \A r \in ConnectionRuns :
           /\ ~MapHas(clients, r.ws)
           /\ r.S.trace[1].ev.type = "connection_established"
           /\ \A j \in Sends(r) :
                  /\ r.S.trace[j].call = 0
                  /\ j > 1 => r.S.trace[j].ev.type
                                  \in {"presence_update", "new_message"}

\* C27's case: a registered connection sends a frame with another userId,
\* which is broadcast while another accepted connection is not registered
C27_Witness ==
    \E r \in IntakeRuns :
        /\ Admits(r)
        /\ MapHas(clients, r.ws)
        /\ MapGet(clients, r.ws) # r.frame.msg.userId
        /\ MapGet(r.S.clients, r.ws) = r.frame.msg.userId
        /\ Calls(r) # {}
        /\ \E c \in IntakeConns \ KeySet(r.reg) : readyState[c] = "OPEN"

\* C30: when the message_confirmed send throws, the handler sends nothing
\* else, broadcasts nothing and leaves the log as it was; when it returns,
\* the log gains the new message at its end; no other handler changes the
\* log, whose messages are in the order their ids were issued; a new
\* connection is replayed the log in that order; and the pending map is
\* empty after every handler.
C30_LogHoldsConfirmed ==
    /\ pendingMessages = {}
    /\ \A k \in 1..Len(messagesInMemory) :
           /\ messagesInMemory[k].type = "new_message"
           /\ \A k2 \in (k + 1)..Len(messagesInMemory) :
                  messagesInMemory[k].id[2] < messagesInMemory[k2].id[2]
    /\ \A r \in AcceptRuns :
           /\ r.S.pending = {}
           /\ r.S.trace[1].k = "send"
           /\ r.S.trace[1].to = r.ws
           /\ r.S.trace[1].ev.type = "message_confirmed"
           /\ r.S.trace[1].ok = (r.ws \notin r.fail)
           /\ IF r.S.trace[1].ok
              THEN /\ Len(r.S.messages) = Len(messagesInMemory) + 1
                   /\ SubSeq(r.S.messages, 1, Len(messagesInMemory))
                          = messagesInMemory
                   /\ r.S.messages[Len(r.S.messages)].id = r.S.trace[1].ev.id
                   /\ r.S.messages[Len(r.S.messages)].content
                          = r.frame.msg.content
                   /\ r.S.messages[Len(r.S.messages)].id[2] > nextId
              ELSE /\ r.S.messages = messagesInMemory
                   /\ Len(r.S.trace) = 1
    /\ \A r \in HandlerRuns :
           /\ r.S.pending = {}
           /\ ~(r.op = "message" /\ IssuesId(r.frame)) =>
                  r.S.messages = messagesInMemory
    /\ \A r \in ConnectionRuns :
           LET js == SendsOfType(r, "new_message") IN
           /\ Cardinality(js) = Len(messagesInMemory)
           /\ \A j \in js :
                  r.S.trace[j].ev =
                      messagesInMemory[Cardinality({j2 \in js : j2 <= j})]

\* C30's case: the log holds a message, another registered connection is
\* OPEN, and the confirmation of a second accepted message throws
C30_Witness ==
    \E r \in AcceptRuns :
        /\ Len(messagesInMemory) = 1
        /\ r.ws \in r.fail
        /\ \E c \in KeySet(r.reg) \ {r.ws} : r.rs[c] = "OPEN" /\ c \notin r.fail
        /\ r.S.messages = messagesInMemory
        /\ Calls(r) = {}

----------------------------------------------------------------------------
(* Claims about the client's message list *)

\* the events a hub sends: they carry an id and a content
ConfirmedEvents ==
    {e \in IncomingConfirmed : e.id # <<>> /\ ~Falsy(e.content)}
NewEvents ==
    {e \in IncomingNew : e.id # <<>> /\ ~Falsy(e.content)}

\* C3 as the claim states it: from every list the client can hold, applying
\* the same message_confirmed or new_message event twice gives the list
\* that applying it once gives.
C3_AsClaimed ==
    /\ \A e \in ConfirmedEvents :
           onMessageConfirmed(onMessageConfirmed(messages, e, clock), e, clock)
               = onMessageConfirmed(messages, e, clock)
    /\ \A e \in NewEvents :
           onNewMessage(onNewMessage(messages, e, clock), e, clock)
               = onNewMessage(messages, e, clock)

\* the positions of L whose entry has content x
WithContent(L, x) == {k \in 1..Len(L) : L[k].content = x}
\* the positions of L that hold a placeholder for content x
Placeholders(L, x) == {k \in WithContent(L, x) : IsTemp(L[k].id)}

\* C4: when the list holds the placeholder of a send of content x and the
\* message_confirmed for x arrives, no placeholder with content x remains,
\* the placeholders of x are replaced by exactly one entry, which carries
\* the confirmation's id and content x, and every other entry stays.
C4_PlaceholderReplaced ==
    \A e \in ConfirmedEvents :
        Placeholders(messages, e.content) # {} =>
            LET R == onMessageConfirmed(messages, e, clock)
                x == e.content
            IN  /\ Placeholders(R, x) = {}
                /\ Cardinality(WithContent(R, x))
                     = Cardinality(WithContent(messages, x)
                                     \ Placeholders(messages, x)) + 1
                /\ (\A k \in 1..Len(messages) : messages[k].id # e.id) =>
                       Cardinality({k \in WithContent(R, x) :
                                       R[k].id = e.id}) = 1
                /\ SelectSeq(R, LAMBDA m : m.id # e.id)
                     = SelectSeq(messages,
                                 LAMBDA m : m.id # e.id
                                            /\ ~(IsTemp(m.id) /\ m.content = x))

\* C4's case: the list holds a placeholder for "hi" next to other entries,
\* and a confirmation for "hi" with an id the list does not hold can arrive
C4_Witness ==
    /\ Len(messages) >= 2
    /\ Placeholders(messages, "hi") # {}
    /\ \E k \in 1..Len(messages) : ~IsTemp(messages[k].id)
    /\ \E e \in ConfirmedEvents :
           /\ e.content = "hi"
           /\ \A k \in 1..Len(messages) : messages[k].id # e.id
           /\ Len(onMessageConfirmed(messages, e, clock)) = Len(messages)

\* C20 as the claim states it: the list holds at most one entry per
\* canonical id, and an event whose id the list holds leaves it unchanged.
C20_AsClaimed ==
    /\ \A k1, k2 \in 1..Len(messages) :
           (k1 # k2 /\ ~IsTemp(messages[k1].id)) =>
               messages[k1].id # messages[k2].id
    /\ \A e \in ConfirmedEvents :
           (\E k \in 1..Len(messages) : messages[k].id = e.id) =>
               onMessageConfirmed(messages, e, clock) = messages
    /\ \A e \in NewEvents :
           (\E k \in 1..Len(messages) : messages[k].id = e.id) =>
               onNewMessage(messages, e, clock) = messages

\* the placeholders of list L, in order
PlaceholdersOf(L) == SelectSeq(L, LAMBDA m : IsTemp(m.id))

\* C21 as the claim states it: a new_message that another user sent leaves
\* every local placeholder in the list.
C21_AsClaimed ==
    \A e \in NewEvents :
        Sender(e.userId) # MockUserIds[1] =>
            PlaceholdersOf(onNewMessage(messages, e, clock))
                = PlaceholdersOf(messages)

\* C22 as the claim states it: a confirmation with content x replaces one
\* placeholder with content x and leaves the others, and the channel's
\* view holds as many entries with content x as the list does.
C22_AsClaimed ==
    /\ \A e \in ConfirmedEvents :
           Placeholders(messages, e.content) # {} =>
               Cardinality(Placeholders(
                   onMessageConfirmed(messages, e, clock), e.content))
                 = Cardinality(Placeholders(messages, e.content)) - 1
    /\ \A x \in {"hi", "yo"} :
           Cardinality(WithContent(channelView(messages, "1"), x))
             = Cardinality(WithContent(messages, x))

\* C23 as the claim states it: when ws.send throws inside sendMessage, so
\* that it returns false, the list holds no placeholder for that send.
C23_AsClaimed ==
    \A message \in Outgoing :
        LET o == sendMessageResult(messages, message, clock, TRUE)
        IN  ~o.returned => o.messages = messages

\* L is in ascending order of timestamp
Sorted(L) ==
    \A i, j \in 1..Len(L) : i < j => L[i].timestamp <= L[j].timestamp
\* L without its p-th entry
RemoveAt(L, p) == SubSeq(L, 1, p - 1) \o SubSeq(L, p + 1, Len(L))
\* R is old with one entry put in behind every entry that is not later,
\* the entries of old keeping their order
PutInOrder(old, R) ==
    \E p \in 1..Len(R) :
        /\ RemoveAt(R, p) = old
        /\ \A q \in 1..Len(R) :
               IF q < p THEN R[q].timestamp <= R[p].timestamp
               ELSE q > p => R[q].timestamp > R[p].timestamp
\* the lists before and after each mutation the client can make now
Mutations ==
    { [old |-> messages, new |-> sendMessage(messages, m, clock)] :
        m \in Outgoing }
    \cup { [old |-> dropPlaceholders(messages, e.content),
            new |-> onNewMessage(messages, e, clock)] : e \in NewEvents }
    \cup { [old |-> dropPlaceholders(messages, e.content),
            new |-> onMessageConfirmed(messages, e, clock)] :
           e \in ConfirmedEvents }

\* C24: the list is sorted by ascending timestamp after every mutation, the
\* entries it keeps stay in their order and the entry that arrives goes
\* behind the entries of its own timestamp.
C24_SortedStable ==
    /\ Sorted(messages)
    /\ \A mu \in Mutations :
           /\ Sorted(mu.new)
           /\ mu.new = messages \/ PutInOrder(mu.old, mu.new)

\* C24's case: the list holds entries of equal and of different timestamps
\* and an event arrives whose timestamp the list already holds
C24_Witness ==
    /\ Len(messages) >= 2
    /\ \E i, j \in 1..Len(messages) :
           i < j /\ messages[i].timestamp = messages[j].timestamp
    /\ \E i, j \in 1..Len(messages) :
           messages[i].timestamp < messages[j].timestamp
    /\ \E mu \in Mutations :
           /\ mu.new # messages
           /\ \E p \in 1..(Len(mu.new) - 1) :
                  /\ RemoveAt(mu.new, p) = mu.old
                  /\ p > 1
                  /\ mu.new[p - 1].timestamp = mu.new[p].timestamp

----------------------------------------------------------------------------
(* Claims about the client's reconnection *)

\* the sockets that are connecting or open
InProgress == {sk \in 1..Len(sockets) : sockets[sk].state \in {"CONNECTING", "OPEN"}}
\* the timers that are armed
Armed == {t \in 1..Len(timers) : timers[t].armed}

\* C5 as the claim states it: while no connection attempt has succeeded,
\* the client has made the first attempt and at most 5 retries.
C5_AsClaimed ==
    (\A sk \in 1..Len(sockets) : ~sockets[sk].opened) =>
        Len(sockets) <= 1 + MaxRetries

\* the number of failed attempts that precede attempt sk without a success
\* between them
RECURSIVE FailedBefore(_)
FailedBefore(sk) ==
    IF sk = 1 \/ sockets[sk - 1].opened THEN 0
    ELSE 1 + FailedBefore(sk - 1)

\* C6 as the claim states it: an attempt that follows a failed attempt is
\* started by a backoff timer, the retry counter then counts the failed
\* attempts before it, and the timer of the k-th retry waited
\* min(1000 * 2^k, 10000) ms.
C6_AsClaimed ==
    \A sk \in 2..Len(sockets) :
        ~sockets[sk - 1].opened =>
            /\ sockets[sk].by = "timer"
            /\ sockets[sk].retry = FailedBefore(sk)
            /\ sockets[sk].waited = Backoff(FailedBefore(sk) - 1)

C29_AsClaimed ==
    mounted =>
        \A sk \in 1..Len(sockets) :
            sockets[sk].opened =>
                /\ sockets[sk].state # "CLOSING"
                /\ sockets[sk].state = "OPEN" => sk = Len(sockets)

----------------------------------------------------------------------------
(* Claims about the message input *)

\* C25 as the claim states it: isTyping=false is sent by the typing timer,
\* after a send, or on unmount, never by a keystroke, and the last typing
\* event a keystroke leaves on the wire is isTyping=true.
C25_AsClaimed ==
    /\ \A i \in 1..Len(sent) :
           ~sent[i].isTyping => sent[i].by \in {"timeout", "handleSend", "unmount"}
    /\ (sent # <<>> /\ sent[1].by = "handleTyping") => sent[Len(sent)].isTyping

----------------------------------------------------------------------------
(* Claims about typing *)

\* the set of every key holds the users whose last event for the key had
\* isTyping = true
TypingSetsExact ==
    \A k \in TypingKeys :
        typingIndicators[k] = {u \in Users : lastTyping[k][u] = "true"}
\* an event changes no set but the one of its key
OtherKeysKept ==
    \A data \in TypingEvents : \A k \in TypingKeys \ {TypingKey(data)} :
        onTypingIndicator(typingIndicators, data)[k] = typingIndicators[k]
\* the broadcast of a typing run is the first entry of its trace: it
\* carries the frame's fields and excludes the sender
ForwardsFrame(r) ==
    /\ r.S.trace # <<>>
    /\ r.S.trace[1].k = "call"
    /\ r.S.trace[1].excl = r.ws
    /\ r.S.trace[1].ev.type = "typing_indicator"
    /\ r.S.trace[1].ev.userId = r.frame.msg.userId
    /\ r.S.trace[1].ev.isTyping = r.frame.msg.isTyping
    /\ r.S.trace[1].ev.channelId = r.frame.msg.channelId
    /\ r.S.trace[1].ev.dmId = r.frame.msg.dmId
    /\ Tried(r, 1, r.ws) = {}

\* C26 as the claim states it: the typing sets are exact, an event leaves
\* the other keys alone, and the hub forwards a typing_indicator to every
\* registered OPEN connection but the sender.
C26_AsClaimed ==
    /\ TypingSetsExact
    /\ OtherKeysKept
    /\ \A r \in TypingRuns :
           /\ ForwardsFrame(r)
           /\ \A c \in Audience(r, 1) : Cardinality(Delivered(r, 1, c)) = 1

\* C26: the typing sets are exact, an event leaves the other keys alone,
\* and the hub forwards a typing_indicator, once, to every registered OPEN
\* connection but the sender on which no send throws in that handler; a
\* connection whose send throws is tried at most once.
C26_TypingSets ==
    /\ TypingSetsExact
    /\ OtherKeysKept
    /\ \A r \in TypingRuns :
           /\ ForwardsFrame(r)
           /\ \A c \in Audience(r, 1) \ r.fail :
                  Cardinality(Delivered(r, 1, c)) = 1
           /\ \A c \in Conns : Cardinality(Tried(r, 1, c)) <= 1
           /\ \A c \in Conns \ Audience(r, 1) : Tried(r, 1, c) = {}

\* C26's case: a user typed and stopped under one key and types under
\* another, while the hub forwards a typing frame to another connection
C26_Witness ==
    /\ \E k1, k2 \in TypingKeys : \E u \in Users :
           /\ k1 # k2
           /\ lastTyping[k1][u] = "false"
           /\ lastTyping[k2][u] = "true"
           /\ typingIndicators[k2] = Users
    /\ \E r \in TypingRuns : r.fail = {} /\ Audience(r, 1) # {}

Init == HubInit /\ CliInit /\ ConnInit /\ InputInit /\ TypInit
Spec == Init /\ [][Next]_vars
SpecClient == Init /\ [][NextClient]_vars
SpecConn == Init /\ [][NextConn]_vars
SpecIntake == Init /\ [][NextIntake]_vars
SpecInput == Init /\ [][NextInput]_vars
SpecTyping == Init /\ [][NextTyping]_vars
====
